---- MODULE Spec2Model ----
(***************************************************************************)
(* The RedHatBoy state machine of the Walk-the-Dog game (src/src/game.rs): *)
(* the typestate machine RedHatBoyStateMachine, the RedHatBoyContext it    *)
(* carries, the events delivered to it and the Barrier collision check.    *)
(***************************************************************************)
EXTENDS Integers, Sequences, FiniteSets, TLC

\* ------------------------------------------------------------------------
\* Program constants (game.rs, mod red_hat_boy_states)
\* ------------------------------------------------------------------------
HEIGHT == 600
FLOOR == 479
PLAYER_HEIGHT == HEIGHT - FLOOR
STARTING_POINT == -20

IDLE_FRAME_NAME == "Idle"
RUN_FRAME_NAME == "Run"
SLIDING_FRAME_NAME == "Slide"
JUMPING_FRAME_NAME == "Jump"
FALLING_FRAME_NAME == "Dead"

IDLE_FRAMES == 30
RUNNING_FRAMES == 24
SLIDING_FRAMES == 15
JUMPING_FRAMES == 36
FALLING_FRAMES == 30

RUNNING_SPEED == 3
JUMP_SPEED == -25
GRAVITY == 1
TERMINAL_VELOCITY == 20

\* RedHatBoy::bounding_box offsets
X_OFFSET == 18
Y_OFFSET == 14
W_OFFSET == 28

\* ------------------------------------------------------------------------
\* i16 arithmetic: a release build wraps, a debug build panics on overflow
\* ------------------------------------------------------------------------
I16_MIN == -32768
I16_MAX == 32767

InI16(n) == I16_MIN <= n /\ n <= I16_MAX

I16(n) == ((n - I16_MIN) % 65536) + I16_MIN

Min(a, b) == IF a <= b THEN a ELSE b

\* ------------------------------------------------------------------------
\* RedHatBoyContext  { frame: u8, position: Point, velocity: Point }
\* ------------------------------------------------------------------------
\* bug variant: the terminal velocity itself still accelerates
GravityAppliedPastTerminal(context) ==
    IF context.velocity.y <= TERMINAL_VELOCITY
    THEN context.velocity.y + GRAVITY
    ELSE context.velocity.y

GravityApplied(context) ==
    IF context.velocity.y < TERMINAL_VELOCITY
    THEN context.velocity.y + GRAVITY
    ELSE context.velocity.y

\* bug variant: the floor clamp is missing
ContextUpdateNoClamp(context, frame_count) ==
    LET vy == GravityApplied(context)
    IN  [context EXCEPT !.velocity.y = vy,
                        !.frame = (context.frame + 1) % frame_count,
                        !.position.y = I16(context.position.y + vy)]

ContextUpdate(context, frame_count) ==
    LET vy == GravityApplied(context)
        y  == I16(context.position.y + vy)
    IN  [context EXCEPT !.velocity.y = vy,
                        !.frame = (context.frame + 1) % frame_count,
                        !.position.y = Min(y, FLOOR)]

ContextUpdateOverflows(context) ==
    ~InI16(context.position.y + GravityApplied(context))

reset_frame(context) == [context EXCEPT !.frame = 0]

run_right(context) ==
    [context EXCEPT !.velocity.x = I16(context.velocity.x + RUNNING_SPEED)]

set_vertical_velocity(context, y) == [context EXCEPT !.velocity.y = y]

\* bug variant: the fall starts without vertical velocity
stop_horizontal_only(context) == [context EXCEPT !.velocity.x = 0]

stop(context) == [context EXCEPT !.velocity.x = 0, !.velocity.y = GRAVITY]

\* bug variant: the position is moved by the offset instead of set
set_on_relative(context, position) ==
    [context EXCEPT !.position.y = I16(context.position.y + position - PLAYER_HEIGHT)]

set_on(context, position) ==
    [context EXCEPT !.position.y = I16(position - PLAYER_HEIGHT)]

SetOnOverflows(position) == ~InI16(position - PLAYER_HEIGHT)

\* ------------------------------------------------------------------------
\* RedHatBoyState<S>: the typestate is the field "state" of the machine
\* ------------------------------------------------------------------------
Machine(state, context) == [state |-> state, context |-> context]

IdleNew ==
    Machine("Idle", [frame |-> 0,
                     position |-> [x |-> STARTING_POINT, y |-> FLOOR],
                     velocity |-> [x |-> 0, y |-> 0]])

IdleRun(context) == Machine("Running", run_right(reset_frame(context)))

IdleUpdate(context) == Machine("Idle", ContextUpdate(context, IDLE_FRAMES))

\* bug variant: Running wraps with the frame count of Idle
RunningUpdateIdleFrames(context) == Machine("Running", ContextUpdate(context, IDLE_FRAMES))

RunningUpdate(context) == Machine("Running", ContextUpdate(context, RUNNING_FRAMES))

RunningSlide(context) == Machine("Sliding", reset_frame(context))

RunningJump(context) ==
    Machine("Jumping", reset_frame(set_vertical_velocity(context, JUMP_SPEED)))

RunningKnockOut(context) == Machine("Falling", stop(reset_frame(context)))

RunningLandOn(context, position) == Machine("Running", set_on(context, position))

\* bug variant: standing up keeps the slide's frame counter
SlidingStandKeepsFrame(context) == Machine("Running", context)

SlidingStand(context) == Machine("Running", reset_frame(context))

SlidingUpdateWraps(context) ==
    LET updated == ContextUpdate(context, SLIDING_FRAMES)
    IN  IF updated.frame + 1 > SLIDING_FRAMES
        THEN SlidingStand(updated)
        ELSE Machine("Sliding", updated)

SlidingUpdate(context) ==
    LET updated == ContextUpdate(context, SLIDING_FRAMES)
    IN  IF updated.frame + 1 >= SLIDING_FRAMES
        THEN SlidingStand(updated)
        ELSE Machine("Sliding", updated)

SlidingKnockOut(context) == Machine("Falling", stop(reset_frame(context)))

\* bug variant: landing from a jump keeps the jump's frame counter
JumpingLandOnKeepsFrame(context, position) == Machine("Running", set_on(context, position))

JumpingLandOn(context, position) ==
    Machine("Running", set_on(reset_frame(context), position))

JumpingUpdateNeverLands(context) ==
    LET updated == ContextUpdate(context, JUMPING_FRAMES)
    IN  IF updated.position.y > FLOOR
        THEN JumpingLandOn(updated, HEIGHT)
        ELSE Machine("Jumping", updated)

\* bug variant: the jump lands on FLOOR instead of HEIGHT
JumpingUpdateLandsOnFloor(context) ==
    LET updated == ContextUpdate(context, JUMPING_FRAMES)
    IN  IF updated.position.y >= FLOOR
        THEN JumpingLandOn(updated, FLOOR)
        ELSE Machine("Jumping", updated)

JumpingUpdate(context) ==
    LET updated == ContextUpdate(context, JUMPING_FRAMES)
    IN  IF updated.position.y >= FLOOR
        THEN JumpingLandOn(updated, HEIGHT)
        ELSE Machine("Jumping", updated)

JumpingKnockOut(context) == Machine("Falling", stop(reset_frame(context)))

FallingKnockOut(context) == Machine("KnockedOut", context)

FallingUpdateWraps(context) ==
    LET updated == ContextUpdate(context, FALLING_FRAMES)
    IN  IF updated.frame + 1 > FALLING_FRAMES
        THEN FallingKnockOut(updated)
        ELSE Machine("Falling", updated)

FallingUpdate(context) ==
    LET updated == ContextUpdate(context, FALLING_FRAMES)
    IN  IF updated.frame + 1 >= FALLING_FRAMES
        THEN FallingKnockOut(updated)
        ELSE Machine("Falling", updated)

\* ------------------------------------------------------------------------
\* Event and RedHatBoyStateMachine::transition
\* ------------------------------------------------------------------------
Run == [type |-> "Run"]
Slide == [type |-> "Slide"]
Jump == [type |-> "Jump"]
KnockOut == [type |-> "KnockOut"]
Land(position) == [type |-> "Land", position |-> position]
Update == [type |-> "Update"]

\* bug variant: an unhandled event restarts the animation
UnhandledResetsFrame(machine) == Machine(machine.state, reset_frame(machine.context))

UnhandledRunsRight(machine) == Machine(machine.state, run_right(machine.context))

\* the arm `_ => self`
Unhandled(machine) == machine

transition(machine, event) ==
    LET s == machine.state
        t == event.type
        c == machine.context
    IN  CASE s = "Idle"    /\ t = "Run"      -> IdleRun(c)
          [] s = "Running" /\ t = "Slide"    -> RunningSlide(c)
          [] s = "Running" /\ t = "Jump"     -> RunningJump(c)
          [] s = "Running" /\ t = "KnockOut" -> RunningKnockOut(c)
          [] s = "Sliding" /\ t = "KnockOut" -> SlidingKnockOut(c)
          [] s = "Jumping" /\ t = "KnockOut" -> JumpingKnockOut(c)
          [] s = "Idle"    /\ t = "Update"   -> IdleUpdate(c)
          [] s = "Running" /\ t = "Update"   -> RunningUpdate(c)
          [] s = "Sliding" /\ t = "Update"   -> SlidingUpdate(c)
          [] s = "Jumping" /\ t = "Update"   -> JumpingUpdate(c)
          [] s = "Falling" /\ t = "Update"   -> FallingUpdate(c)
          [] s = "Jumping" /\ t = "Land"     -> JumpingLandOn(c, event.position)
          [] s = "Running" /\ t = "Land"     -> RunningLandOn(c, event.position)
          [] OTHER -> Unhandled(machine)

\* The i16 additions transition(machine, event) performs that can overflow:
\* position.y += velocity.y in RedHatBoyContext::update and
\* position - PLAYER_HEIGHT in RedHatBoyContext::set_on.
Overflows(machine, event) ==
    LET s == machine.state
        t == event.type
    IN  CASE t = "Update" /\ s \in {"Idle", "Running", "Sliding", "Jumping", "Falling"}
               -> ContextUpdateOverflows(machine.context)
          [] t = "Land" /\ s \in {"Running", "Jumping"}
               -> SetOnOverflows(event.position)
          [] OTHER -> FALSE

\* ------------------------------------------------------------------------
\* RedHatBoy: frame name, bounding box, and the Barrier obstacle
\* ------------------------------------------------------------------------
StateFrameName(machine) ==
    CASE machine.state = "Idle"       -> IDLE_FRAME_NAME
      [] machine.state = "Running"    -> RUN_FRAME_NAME
      [] machine.state = "Sliding"    -> SLIDING_FRAME_NAME
      [] machine.state = "Jumping"    -> JUMPING_FRAME_NAME
      [] machine.state = "Falling"    -> FALLING_FRAME_NAME
      [] machine.state = "KnockedOut" -> FALLING_FRAME_NAME

frame_name(machine) ==
    StateFrameName(machine) \o " (" \o ToString((machine.context.frame \div 3) + 1) \o ").png"

Rect(x, y, w, h) == [x |-> x, y |-> y, w |-> w, h |-> h]

\* cell: the sprite-sheet Cell current_sprite() finds for the frame name
destination_box(machine, cell) ==
    Rect(I16(machine.context.position.x + cell.sprite_source_size.x),
         I16(machine.context.position.y + cell.sprite_source_size.y),
         cell.frame.w, cell.frame.h)

bounding_box(machine, cell) ==
    LET d == destination_box(machine, cell)
    IN  Rect(I16(d.x + X_OFFSET), I16(d.y + Y_OFFSET), d.w - W_OFFSET, d.h - Y_OFFSET)

\* Rect::intersects of the engine: strict overlap of two axis-aligned boxes
intersects(a, b) ==
    /\ a.x < b.x + b.w
    /\ a.x + a.w > b.x
    /\ a.y < b.y + b.h
    /\ a.y + a.h > b.y

knock_out(machine) == transition(machine, KnockOut)

\* Barrier::check_intersection, box being the barrier image's bounding box
BarrierCheck(machine, cell, box) ==
    IF intersects(bounding_box(machine, cell), box)
    THEN knock_out(machine)
    ELSE machine

\* ------------------------------------------------------------------------
\* Engine pieces the world uses: Rect::right, Rect::set_x and Image
\* ------------------------------------------------------------------------
RectRight(rect) == I16(rect.x + rect.w)

RectSetX(rect, x) == [rect EXCEPT !.x = x]

\* Image: the element's size at a position; its bounding box is that box
ImageNew(position, w, h) == [bounding_box |-> Rect(position.x, position.y, w, h)]

ImageRight(image) == RectRight(image.bounding_box)

ImageSetX(image, x) == [image EXCEPT !.bounding_box = RectSetX(image.bounding_box, x)]

ImageMoveHorizontally(image, distance) ==
    ImageSetX(image, I16(image.bounding_box.x + distance))

\* ------------------------------------------------------------------------
\* Obstacles: Barrier and Platform
\* ------------------------------------------------------------------------
BarrierNew(image) == [kind |-> "Barrier", image |-> image]

\* Platform::new: the bounding boxes are given relative to the position
PlatformNew(position, boxes) ==
    [kind |-> "Platform",
     position |-> position,
     bounding_boxes |->
        [i \in 1..Len(boxes) |->
            Rect(I16(boxes[i].x + position.x), I16(boxes[i].y + position.y),
                 boxes[i].w, boxes[i].h)]]

\* index of the first bounding box the character's box intersects, 0 if none
RECURSIVE FindIntersecting(_, _, _)
FindIntersecting(boxes, box, i) ==
    IF i > Len(boxes) THEN 0
    ELSE IF intersects(box, boxes[i]) THEN i
    ELSE FindIntersecting(boxes, box, i + 1)

land_on(machine, position) == transition(machine, Land(position))

PlatformCheckFromBelow(platform, machine, cell) ==
    LET found == FindIntersecting(platform.bounding_boxes, bounding_box(machine, cell), 1)
    IN  IF found = 0 THEN machine
        ELSE IF machine.context.velocity.y > 0
             THEN land_on(machine, platform.bounding_boxes[found].y)
             ELSE knock_out(machine)

\* Platform::check_intersection
PlatformCheck(platform, machine, cell) ==
    LET found == FindIntersecting(platform.bounding_boxes, bounding_box(machine, cell), 1)
    IN  IF found = 0 THEN machine
        ELSE IF machine.context.velocity.y > 0
                  /\ machine.context.position.y < platform.position.y
             THEN land_on(machine, platform.bounding_boxes[found].y)
             ELSE knock_out(machine)

\* Platform::move_horizontally
PlatformMovePositionOnly(platform, x) ==
    [platform EXCEPT !.position.x = I16(platform.position.x + x)]

PlatformMoveHorizontally(platform, x) ==
    [platform EXCEPT
        !.position.x = I16(platform.position.x + x),
        !.bounding_boxes =
            [i \in 1..Len(platform.bounding_boxes) |->
                RectSetX(platform.bounding_boxes[i],
                         I16(platform.bounding_boxes[i].x + x))]]

\* Platform::right: the right edge of the last bounding box
PlatformRight(platform) ==
    IF Len(platform.bounding_boxes) = 0 THEN 0
    ELSE RectRight(platform.bounding_boxes[Len(platform.bounding_boxes)])

\* dyn Obstacle dispatch
check_intersection(obstacle, machine, cell) ==
    IF obstacle.kind = "Barrier"
    THEN BarrierCheck(machine, cell, obstacle.image.bounding_box)
    ELSE PlatformCheck(obstacle, machine, cell)

move_horizontally(obstacle, x) ==
    IF obstacle.kind = "Barrier"
    THEN [obstacle EXCEPT !.image = ImageMoveHorizontally(obstacle.image, x)]
    ELSE PlatformMoveHorizontally(obstacle, x)

right(obstacle) ==
    IF obstacle.kind = "Barrier" THEN ImageRight(obstacle.image) ELSE PlatformRight(obstacle)

Max(a, b) == IF a >= b THEN a ELSE b

RECURSIVE MaxRight(_, _)
MaxRight(obstacle_list, i) ==
    IF i = Len(obstacle_list) THEN right(obstacle_list[i])
    ELSE Max(right(obstacle_list[i]), MaxRight(obstacle_list, i + 1))

rightmost(obstacle_list) ==
    IF Len(obstacle_list) = 0 THEN 0 ELSE MaxRight(obstacle_list, 1)

\* ------------------------------------------------------------------------
\* segments::stone_and_platform: the obstacle template, a stone barrier
\* followed by a platform of three segments, anchored at offset_x
\* ------------------------------------------------------------------------
TIMELINE_MINIMUM == 1000
OBSTACLE_BUFFER == 20

STONE_ON_GROUND == 546
INITIAL_STONE_OFFSET == 150
LOW_PLATFORM == 420
FIRST_PLATFORM == 370

FLOATING_PLATFORM_BOUNDING_BOXES ==
    <<Rect(0, 0, 60, 54), Rect(60, 0, 264, 93), Rect(324, 0, 60, 54)>>

stone_and_platform(stone, offset_x) ==
    <<BarrierNew(ImageNew([x |-> I16(offset_x + INITIAL_STONE_OFFSET), y |-> STONE_ON_GROUND],
                          stone.w, stone.h)),
      PlatformNew([x |-> I16(offset_x + FIRST_PLATFORM), y |-> LOW_PLATFORM],
                  FLOATING_PLATFORM_BOUNDING_BOXES)>>

\* ------------------------------------------------------------------------
\* Inputs of the model
\* ------------------------------------------------------------------------
\* y values delivered with Land: one below the floor line (HEIGHT) and
\* two platform tops above it
LandPositions == {HEIGHT + 1, HEIGHT - 10, HEIGHT - 40}

\* y values of the deep exploration: the ends of the i16 range, where
\* set_on overflows, and values that put position.y on the i16 boundary,
\* so that the next updates overflow
ExtremeLandPositions ==
    {I16_MIN, I16_MIN + PLAYER_HEIGHT, I16_MIN + PLAYER_HEIGHT + 30, I16_MAX}

\* sprite cells of the character sheet (frame size and source offset)
Cells == {[frame |-> [w |-> 160, h |-> 136], sprite_source_size |-> [x |-> 0, y |-> 0]]}

\* bounding boxes of barrier images: a stone on the floor under the
\* character, and one ahead of the character
BarrierBoxes == {Rect(0, 546, 53, 54), Rect(150, 546, 53, 54)}

MaxRunUpdates == 50
MaxSteps == 8

\* ------------------------------------------------------------------------
\* State
\* ------------------------------------------------------------------------
VARIABLES
    state_machine,  \* RedHatBoy.state_machine
    event,          \* the last operation applied to the machine, with its input
    panicked,       \* an i16 overflow check of a debug build has aborted the program
    run_updates,    \* n when the history is: new, Run, n Updates; -1 otherwise
    prev_state,     \* the variant the last operation was applied to
    steps,          \* number of operations applied (bounds the exploration)
    game,           \* WalkTheDog: "Loading" or "Loaded"; state_machine is walk.boy
    background,     \* walk.background, the two tiles
    obstacles,      \* walk.obstacles
    timeline,       \* walk.timeline
    calls,          \* the calls the last world tick made on the character and the obstacles
    broken_images,  \* the images whose error callback fired while loading
    game_loop,      \* "NotStarted", "Running" or "Failed" (start returned an error)
    last_frame,     \* GameLoop.last_frame
    accumulated_delta, \* GameLoop.accumulated_delta
    pending,        \* frame callbacks requested from the browser and not yet run
    updates,        \* number of update() calls the loop has made
    frame_calls     \* the calls the last frame callback made, in order

character == <<state_machine, event, panicked, run_updates, prev_state, steps>>

world == <<game, background, obstacles, timeline, calls, broken_images>>

loop == <<game_loop, last_frame, accumulated_delta, pending, updates, frame_calls>>

vars == <<state_machine, event, panicked, run_updates, prev_state, steps,
          game, background, obstacles, timeline, calls, broken_images,
          game_loop, last_frame, accumulated_delta, pending, updates, frame_calls>>

Init ==
    /\ state_machine = IdleNew
    /\ event = [type |-> "New"]
    /\ panicked = FALSE
    /\ run_updates = -1
    /\ prev_state = "Idle"
    /\ steps = 0
    /\ game = "Loading"
    /\ background = <<>>
    /\ obstacles = <<>>
    /\ timeline = 0
    /\ calls = <<>>
    /\ broken_images = {}
    /\ game_loop = "NotStarted"
    /\ last_frame = 0
    /\ accumulated_delta = 0
    /\ pending = 0
    /\ updates = 0
    /\ frame_calls = <<>>

NextRunUpdates(e) ==
    CASE e.type = "Run" /\ event.type = "New" -> 0
      [] e.type = "Update" /\ run_updates >= 0 /\ run_updates < MaxRunUpdates
            -> run_updates + 1
      [] OTHER -> -1

\* state_machine = state_machine.transition(e), as every RedHatBoy method does
Deliver(e) ==
    /\ ~panicked
    /\ event' = e
    /\ run_updates' = NextRunUpdates(e)
    /\ prev_state' = state_machine.state
    /\ UNCHANGED <<world, loop>>
    /\ \/ /\ state_machine' = transition(state_machine, e)
          /\ panicked' = FALSE
       \/ /\ Overflows(state_machine, e)
          /\ state_machine' = state_machine
          /\ panicked' = TRUE

RedHatBoyRunRight == Deliver(Run) /\ UNCHANGED steps

RedHatBoySlide == Deliver(Slide) /\ UNCHANGED steps

RedHatBoyJump == Deliver(Jump) /\ UNCHANGED steps

RedHatBoyKnockOut == Deliver(KnockOut) /\ UNCHANGED steps

RedHatBoyLandOn == \E y \in LandPositions : Deliver(Land(y)) /\ UNCHANGED steps

RedHatBoyUpdate == Deliver(Update) /\ UNCHANGED steps

BarrierCheckIntersection ==
    \E cell \in Cells, box \in BarrierBoxes :
        /\ ~panicked
        /\ state_machine' = BarrierCheck(state_machine, cell, box)
        /\ event' = [type |-> "CheckIntersection", cell |-> cell, box |-> box]
        /\ run_updates' = -1
        /\ prev_state' = state_machine.state
        /\ UNCHANGED <<panicked, steps, world, loop>>

Next ==
    \/ RedHatBoyRunRight
    \/ RedHatBoySlide
    \/ RedHatBoyJump
    \/ RedHatBoyKnockOut
    \/ RedHatBoyLandOn
    \/ RedHatBoyUpdate
    \/ BarrierCheckIntersection

Spec == Init /\ [][Next]_vars

\* Deep exploration: at most MaxSteps events from the new machine, Land
\* carrying positions at the ends of the i16 range
ExtremeEvents ==
    {Run, Slide, Jump, KnockOut, Update}
        \cup {Land(y) : y \in ExtremeLandPositions \cup LandPositions}

ExtremeStep ==
    /\ steps < MaxSteps
    /\ steps' = steps + 1
    /\ \E e \in ExtremeEvents : Deliver(e)

SpecExtreme == Init /\ [][ExtremeStep]_vars

TypeOK ==
    /\ state_machine.state \in {"Idle", "Running", "Sliding", "Jumping", "Falling", "KnockedOut"}
    /\ state_machine.context.frame \in 0..255
    /\ InI16(state_machine.context.position.x)
    /\ InI16(state_machine.context.position.y)
    /\ InI16(state_machine.context.velocity.x)
    /\ InI16(state_machine.context.velocity.y)
    /\ panicked \in BOOLEAN

\* ------------------------------------------------------------------------
\* The world: WalkTheDog::initialize and WalkTheDog::update
\* ------------------------------------------------------------------------
\* the sprite sheet has one cell for every frame name
current_sprite(machine) == CHOOSE cell \in Cells : TRUE

walk_speed(machine) == machine.context.velocity.x

\* variant: the world keeps the running speed whatever the character does
velocity_of_a_runner(machine) == I16(-RUNNING_SPEED)

\* Walk::velocity
velocity(machine) == I16(-walk_speed(machine))

RetainAll(obstacle_list) == obstacle_list

\* walk.obstacles.retain(|obstacle| obstacle.right() > 0)
Retain(obstacle_list) == SelectSeq(obstacle_list, LAMBDA obstacle : right(obstacle) > 0)

Call(op, i, edge) == [op |-> op, obstacle |-> i, right |-> edge]

CheckAndMove(obstacle, i, boy, distance) ==
    LET moved == move_horizontally(obstacle, distance)
    IN  [obstacle |-> moved,
         boy |-> check_intersection(obstacle, boy, current_sprite(boy)),
         calls |-> <<Call("check_intersection", i, right(obstacle)),
                     Call("move_horizontally", i, right(moved))>>]

\* the body of the for_each closure, on obstacle i of the list
MoveAndCheck(obstacle, i, boy, distance) ==
    LET moved == move_horizontally(obstacle, distance)
    IN  [obstacle |-> moved,
         boy |-> check_intersection(moved, boy, current_sprite(boy)),
         calls |-> <<Call("move_horizontally", i, right(moved)),
                     Call("check_intersection", i, right(moved))>>]

\* walk.obstacles.iter_mut().for_each(..), from obstacle i on
RECURSIVE ForEachObstacle(_, _, _, _, _)
ForEachObstacle(obstacle_list, boy, distance, i, log) ==
    IF i > Len(obstacle_list)
    THEN [obstacles |-> obstacle_list, boy |-> boy, calls |-> log]
    ELSE LET step == MoveAndCheck(obstacle_list[i], i, boy, distance)
         IN  ForEachObstacle([obstacle_list EXCEPT ![i] = step.obstacle],
                             step.boy, distance, i + 1, log \o step.calls)

PressKeysJumpFirst(boy, keys) ==
    LET jumped == IF "Space" \in keys THEN transition(boy, Jump) ELSE boy
        ran == IF "ArrowRight" \in keys THEN transition(jumped, Run) ELSE jumped
    IN  IF "ArrowDown" \in keys THEN transition(ran, Slide) ELSE ran

\* the keys of the tick, applied in the order ArrowRight, ArrowDown, Space
PressKeys(boy, keys) ==
    LET ran == IF "ArrowRight" \in keys THEN transition(boy, Run) ELSE boy
        slid == IF "ArrowDown" \in keys THEN transition(ran, Slide) ELSE ran
    IN  IF "Space" \in keys THEN transition(slid, Jump) ELSE slid

ScrollBackgroundBeforeSiblingMoves(tiles, distance) ==
    LET first_moved == ImageMoveHorizontally(tiles[1], distance)
        second_moved == ImageMoveHorizontally(tiles[2], distance)
        first_background ==
            IF ImageRight(first_moved) < 0
            THEN ImageSetX(first_moved, ImageRight(tiles[2]))
            ELSE first_moved
        second_background ==
            IF ImageRight(second_moved) < 0
            THEN ImageSetX(second_moved, ImageRight(tiles[1]))
            ELSE second_moved
    IN  <<first_background, second_background>>

\* the two background tiles scroll; a tile left of the screen goes behind its sibling
ScrollBackground(tiles, distance) ==
    LET first_moved == ImageMoveHorizontally(tiles[1], distance)
        second_moved == ImageMoveHorizontally(tiles[2], distance)
        first_background ==
            IF ImageRight(first_moved) < 0
            THEN ImageSetX(first_moved, ImageRight(second_moved))
            ELSE first_moved
        second_background ==
            IF ImageRight(second_moved) < 0
            THEN ImageSetX(second_moved, ImageRight(first_background))
            ELSE second_moved
    IN  <<first_background, second_background>>

SpawnWithoutDecay(walk, distance) ==
    IF walk.timeline < TIMELINE_MINIMUM
    THEN LET next_obstacles ==
                stone_and_platform(walk.stone, I16(walk.timeline + OBSTACLE_BUFFER))
         IN  [obstacles |-> walk.obstacles \o next_obstacles,
              timeline |-> rightmost(next_obstacles)]
    ELSE [obstacles |-> walk.obstacles, timeline |-> walk.timeline]

SpawnAtTimeline(walk, distance) ==
    IF walk.timeline < TIMELINE_MINIMUM
    THEN LET next_obstacles == stone_and_platform(walk.stone, walk.timeline)
         IN  [obstacles |-> walk.obstacles \o next_obstacles,
              timeline |-> rightmost(next_obstacles)]
    ELSE [obstacles |-> walk.obstacles, timeline |-> I16(walk.timeline + distance)]

\* the end of the tick: a new template when the timeline is short
Spawn(walk, distance) ==
    IF walk.timeline < TIMELINE_MINIMUM
    THEN LET next_obstacles ==
                stone_and_platform(walk.stone, I16(walk.timeline + OBSTACLE_BUFFER))
         IN  [obstacles |-> walk.obstacles \o next_obstacles,
              timeline |-> rightmost(next_obstacles)]
    ELSE [obstacles |-> walk.obstacles, timeline |-> I16(walk.timeline + distance)]

\* WalkTheDog::update on a loaded game
WalkUpdate(walk, keys) ==
    LET boy == transition(PressKeys(walk.boy, keys), Update)
        distance == velocity(boy)
        first_pass == ForEachObstacle(Retain(walk.obstacles), boy, distance, 1,
                                      <<Call("update", 0, 0)>>)
        second_pass == ForEachObstacle(first_pass.obstacles, first_pass.boy, distance, 1,
                                       first_pass.calls)
        spawned == Spawn([walk EXCEPT !.obstacles = second_pass.obstacles], distance)
    IN  [boy |-> second_pass.boy,
         background |-> ScrollBackground(walk.background, distance),
         obstacles |-> spawned.obstacles,
         stone |-> walk.stone,
         timeline |-> spawned.timeline,
         calls |-> second_pass.calls]

\* assets: the files start-up asks the browser for
JsonFiles == {"tiles.json", "rhb_trimmed.json"}
ImageFiles == {"tiles.png", "rhb_trimmed.png", "BG.png", "Stone.png"}

\* sizes of the images that load
STONE_WIDTH == 53
STONE_HEIGHT == 54
BackgroundWidths == {50}

\* what the browser answers: the fetches that fail, the images whose error
\* event fires, and the width of the background image when it loads
LoadedAssets ==
    {[failed_fetches |-> {}, image_errors |-> {}, background_width |-> w] :
        w \in BackgroundWidths}

Assets ==
    LoadedAssets
        \cup {[failed_fetches |-> {f}, image_errors |-> {}, background_width |-> w] :
                f \in JsonFiles, w \in BackgroundWidths}
        \cup {[failed_fetches |-> {}, image_errors |-> {i}, background_width |-> w] :
                i \in ImageFiles, w \in BackgroundWidths}

\* browser::fetch_json
fetch_json(file, assets) == IF file \in assets.failed_fetches THEN "Err" ELSE "Ok"

\* what the callbacks of load_image send into the channel
success_callback == "Ok"
error_callback == "Ok"

\* engine::load_image: the result the channel delivers
load_image(file, assets) ==
    IF file \in assets.image_errors THEN error_callback ELSE success_callback

\* HtmlImageElement::width and height: an image that did not load has no size
ImageWidth(file, assets, w) == IF file \in assets.image_errors THEN 0 ELSE w
ImageHeight(file, assets, h) == IF file \in assets.image_errors THEN 0 ELSE h

AlreadyInitialized == [result |-> "Err", error |-> "Error: Game is already initialized!"]

LoadFailed(file) == [result |-> "Err", error |-> file]

\* WalkTheDog::initialize, the Loading arm
Load(assets) ==
    IF fetch_json("tiles.json", assets) = "Err" THEN LoadFailed("tiles.json")
    ELSE IF load_image("tiles.png", assets) = "Err" THEN LoadFailed("tiles.png")
    ELSE IF fetch_json("rhb_trimmed.json", assets) = "Err" THEN LoadFailed("rhb_trimmed.json")
    ELSE IF load_image("rhb_trimmed.png", assets) = "Err" THEN LoadFailed("rhb_trimmed.png")
    ELSE IF load_image("BG.png", assets) = "Err" THEN LoadFailed("BG.png")
    ELSE IF load_image("Stone.png", assets) = "Err" THEN LoadFailed("Stone.png")
    ELSE LET background_width == ImageWidth("BG.png", assets, assets.background_width)
             stone == [w |-> ImageWidth("Stone.png", assets, STONE_WIDTH),
                       h |-> ImageHeight("Stone.png", assets, STONE_HEIGHT)]
             starting_obstacles == stone_and_platform(stone, 0)
         IN  [result |-> "Ok",
              walk |-> [boy |-> IdleNew,
                        background |->
                            <<ImageNew([x |-> 0, y |-> 0], background_width, HEIGHT),
                              ImageNew([x |-> background_width, y |-> 0],
                                       background_width, HEIGHT)>>,
                        obstacles |-> starting_obstacles,
                        stone |-> stone,
                        timeline |-> rightmost(starting_obstacles)],
              broken_images |-> assets.image_errors]

initializeAgain(self, assets) == Load(assets)

\* WalkTheDog::initialize
initialize(self, assets) ==
    IF self = "Loaded" THEN AlreadyInitialized ELSE Load(assets)

\* walk.stone is the size of the stone image, kept for the next templates
Stone ==
    [w |-> IF "Stone.png" \in broken_images THEN 0 ELSE STONE_WIDTH,
     h |-> IF "Stone.png" \in broken_images THEN 0 ELSE STONE_HEIGHT]

Walk ==
    [boy |-> state_machine, background |-> background, obstacles |-> obstacles,
     stone |-> Stone, timeline |-> timeline]

KeySets == SUBSET {"ArrowRight", "ArrowDown", "Space"}

MaxTicks == 40

\* the game that initialize has returned takes the place of the old one;
\* an error leaves the old one as it is
Install(loaded) ==
    IF loaded.result = "Ok"
    THEN /\ game' = "Loaded"
         /\ state_machine' = loaded.walk.boy
         /\ background' = loaded.walk.background
         /\ obstacles' = loaded.walk.obstacles
         /\ timeline' = loaded.walk.timeline
         /\ broken_images' = loaded.broken_images
    ELSE UNCHANGED <<game, state_machine, background, obstacles, timeline, broken_images>>

\* game.initialize()
Initialize(assets) ==
    LET loaded == initialize(game, assets)
    IN  /\ ~panicked
        /\ event' = [type |-> "Initialize", result |-> loaded.result, from |-> game,
                     image_error |-> assets.image_errors # {},
                     fetch_failed |-> assets.failed_fetches # {}]
        /\ Install(loaded)
        /\ UNCHANGED <<panicked, run_updates, prev_state, steps, calls, loop>>

\* start-up initializes the new game once, and every asset loads
StartUp ==
    /\ game = "Loading"
    /\ \E assets \in LoadedAssets : Initialize(assets)

\* the variables of the world after WalkTheDog::update with the keys pressed
Tick(keys) ==
    /\ game = "Loaded"
    /\ ~panicked
    /\ \E after \in {WalkUpdate(Walk, keys)} :
        /\ state_machine' = after.boy
        /\ background' = after.background
        /\ obstacles' = after.obstacles
        /\ timeline' = after.timeline
        /\ calls' = after.calls
    /\ event' = [type |-> "Tick", keys |-> keys,
                 retired |-> Len(obstacles) - Len(Retain(obstacles)),
                 timeline |-> timeline]
    /\ prev_state' = state_machine.state
    /\ run_updates' = -1
    /\ UNCHANGED <<game, broken_images, panicked>>

WalkTheDogUpdate ==
    /\ steps < MaxTicks
    /\ steps' = steps + 1
    /\ \E keys \in KeySets : Tick(keys)
    /\ UNCHANGED loop

NextWorld ==
    \/ StartUp
    \/ WalkTheDogUpdate

SpecWorld == Init /\ [][NextWorld]_vars

\* ------------------------------------------------------------------------
\* The game loop: GameLoop::start and the frame callback
\* ------------------------------------------------------------------------
\* one tick in units of a third of a millisecond: 1.0 / 60.0 * 1000.0 ms
FRAME_SIZE == 50

\* the times between a frame callback and the one before it
Deltas == {0, 20, 50, 51, 120}

\* the keys held down during a frame
FrameKeySets == {{}, {"ArrowRight"}, {"ArrowRight", "Space"}}

MaxTime == 250

\* browser::now() when the loop starts
StartTime == 0

\* game.update(): nothing happens to a game that is not loaded
GameUpdate(self, walk, keys) ==
    IF self = "Loaded"
    THEN WalkUpdate(walk, keys)
    ELSE [boy |-> walk.boy, background |-> walk.background, obstacles |-> walk.obstacles,
          stone |-> walk.stone, timeline |-> walk.timeline, calls |-> calls]

RECURSIVE DrainWhileAtLeast(_, _, _, _)
DrainWhileAtLeast(delta, walk, keys, log) ==
    IF delta >= FRAME_SIZE
    THEN DrainWhileAtLeast(delta - FRAME_SIZE, GameUpdate(game, walk, keys), keys,
                           Append(log, "update"))
    ELSE [accumulated_delta |-> delta, walk |-> walk, calls |-> log]

RECURSIVE DrainAll(_, _, _, _)
DrainAll(delta, walk, keys, log) ==
    IF delta > FRAME_SIZE
    THEN DrainAll(delta - FRAME_SIZE, GameUpdate(game, walk, keys), keys,
                  Append(log, "update"))
    ELSE [accumulated_delta |-> 0, walk |-> walk, calls |-> log]

\* while game_loop.accumulated_delta > FRAME_SIZE { game.update(); .. -= FRAME_SIZE }
RECURSIVE Drain(_, _, _, _)
Drain(delta, walk, keys, log) ==
    IF delta > FRAME_SIZE
    THEN Drain(delta - FRAME_SIZE, GameUpdate(game, walk, keys), keys, Append(log, "update"))
    ELSE [accumulated_delta |-> delta, walk |-> walk, calls |-> log]

RequestAndDraw == <<"request_animation_frame", "draw">>

\* the end of the callback
DrawAndRequest == <<"draw", "request_animation_frame">>

Requests(log) == Len(SelectSeq(log, LAMBDA c : c = "request_animation_frame"))

NumUpdates(log) == Len(SelectSeq(log, LAMBDA c : c = "update"))

\* GameLoop::start
GameLoopStart ==
    /\ game_loop = "NotStarted"
    /\ ~panicked
    /\ \E assets \in Assets :
        LET loaded == initialize(game, assets)
        IN  /\ Install(loaded)
            /\ event' = [type |-> "Start", result |-> loaded.result, from |-> game,
                         image_error |-> assets.image_errors # {},
                         fetch_failed |-> assets.failed_fetches # {}]
            /\ IF loaded.result = "Ok"
               THEN /\ game_loop' = "Running"
                    /\ last_frame' = StartTime
                    /\ accumulated_delta' = 0
                    /\ pending' = pending + 1
               ELSE /\ game_loop' = "Failed"
                    /\ UNCHANGED <<last_frame, accumulated_delta, pending>>
    /\ UNCHANGED <<panicked, run_updates, prev_state, steps, calls, updates, frame_calls>>

\* the closure the browser calls with the time of the frame
FrameCallback ==
    /\ pending > 0
    /\ ~panicked
    /\ \E delta \in Deltas, keys \in FrameKeySets :
        LET perf == last_frame + delta
        IN  /\ perf <= MaxTime
            /\ \E drained \in {Drain(accumulated_delta + (perf - last_frame), Walk, keys, <<>>)} :
                /\ accumulated_delta' = drained.accumulated_delta
                /\ state_machine' = drained.walk.boy
                /\ background' = drained.walk.background
                /\ obstacles' = drained.walk.obstacles
                /\ timeline' = drained.walk.timeline
                /\ calls' = IF drained.calls = <<>> THEN calls ELSE drained.walk.calls
                /\ updates' = updates + NumUpdates(drained.calls)
                /\ frame_calls' = drained.calls \o DrawAndRequest
                /\ pending' = pending - 1 + Requests(drained.calls \o DrawAndRequest)
            /\ last_frame' = perf
            /\ event' = [type |-> "Frame", perf |-> perf, keys |-> keys]
    /\ prev_state' = state_machine.state
    /\ run_updates' = -1
    /\ UNCHANGED <<game, broken_images, panicked, steps, game_loop>>

\* initialize called on the game once more, at any time
WalkTheDogInitialize == \E assets \in Assets : Initialize(assets)

NextLoop ==
    \/ GameLoopStart
    \/ FrameCallback
    \/ WalkTheDogInitialize

SpecLoop == Init /\ [][NextLoop]_vars

\* ------------------------------------------------------------------------
\* The course of a character that keeps running
\* ------------------------------------------------------------------------
\* the right key is held on every tick, with or without a jump
CourseKeySets == {{"ArrowRight"}, {"ArrowRight", "Space"}}

MaxCourseTicks == 180

\* a tick of the course; the course is followed up to the tick that knocks
\* the character out
CourseUpdate ==
    /\ steps < MaxCourseTicks
    /\ state_machine.state \notin {"Falling", "KnockedOut"}
    /\ steps' = steps + 1
    /\ \E keys \in CourseKeySets : Tick(keys)
    /\ UNCHANGED loop

NextCourse == StartUp \/ CourseUpdate

SpecCourse == Init /\ [][NextCourse]_vars

\* ------------------------------------------------------------------------
\* The character and a platform
\* ------------------------------------------------------------------------
\* where the platform is: its first, second or third box over the
\* character, or the whole platform ahead of it
PlatformXs == {100, -100, -360, 400}

Platforms ==
    {PlatformNew([x |-> x, y |-> LOW_PLATFORM], FLOATING_PLATFORM_BOUNDING_BOXES) :
        x \in PlatformXs}

PlatformCheckIntersection ==
    \E platform \in Platforms :
        /\ ~panicked
        /\ state_machine' =
                PlatformCheck(platform, state_machine, current_sprite(state_machine))
        /\ event' = [type |-> "PlatformCheckIntersection", platform |-> platform]
        /\ run_updates' = -1
        /\ prev_state' = state_machine.state
        /\ UNCHANGED <<panicked, steps, world, loop>>

NextPlatform ==
    \/ RedHatBoyRunRight
    \/ RedHatBoySlide
    \/ RedHatBoyJump
    \/ RedHatBoyUpdate
    \/ PlatformCheckIntersection

SpecPlatform == Init /\ [][NextPlatform]_vars

\* ------------------------------------------------------------------------
\* Properties
\* ------------------------------------------------------------------------
Ctx == state_machine.context

AllEvents == {Run, Slide, Jump, KnockOut, Update} \cup {Land(y) : y \in LandPositions}

\* the pairs (variant, event) the specification lists as legal
LegalPairs ==
    ({"Idle"} \X {"Run", "Update"})
        \cup ({"Running"} \X {"Slide", "Jump", "KnockOut", "Land", "Update"})
        \cup ({"Sliding"} \X {"KnockOut", "Update"})
        \cup ({"Jumping"} \X {"KnockOut", "Land", "Update"})
        \cup ({"Falling"} \X {"Update"})

\* C1: no-op law. In every reachable state, every event that is not legal
\* for the current variant leaves the machine unchanged (variant, frame,
\* position and velocity), and transition handles exactly the legal pairs.
C1_NoOpLaw ==
    \A e \in AllEvents :
        <<state_machine.state, e.type>> \notin LegalPairs
            => transition(state_machine, e) = state_machine

\* an event that is not legal has just been delivered: Land to a slide
\* that is under way
C1_Witness ==
    /\ ~panicked
    /\ event.type = "Land"
    /\ prev_state = "Sliding"
    /\ state_machine.state = "Sliding"
    /\ Ctx.frame > 0

\* frame count of each variant as the specification gives it
frame_count(state) ==
    CASE state = "Idle"       -> 30
      [] state = "Running"    -> 24
      [] state = "Sliding"    -> 15
      [] state = "Jumping"    -> 36
      [] state = "Falling"    -> 30
      [] state = "KnockedOut" -> 30

\* C2: frame counter bound. In every reachable state,
\* 0 <= frame < frame_count(current variant).
C2_FrameBound ==
    /\ 0 <= Ctx.frame
    /\ Ctx.frame < frame_count(state_machine.state)

\* a jump long enough to reach the last frame of its animation
C2_Witness ==
    /\ state_machine.state = "Jumping"
    /\ prev_state = "Jumping"
    /\ event.type = "Update"
    /\ Ctx.frame = 35

\* C3 as stated: after every operation that changes the variant, the frame
\* counter is 0.
C3_ResetOnEveryTransition ==
    (state_machine.state # prev_state /\ ~panicked) => Ctx.frame = 0

\* C3 amended: after every operation that changes the variant the frame
\* counter is 0, except for the automatic Falling to KnockedOut, which
\* leaves the frame counter at the last frame of the fall (29).
C3_ResetOnTransition ==
    (state_machine.state # prev_state /\ ~panicked)
        => IF prev_state = "Falling" /\ state_machine.state = "KnockedOut"
           THEN Ctx.frame = 29
           ELSE Ctx.frame = 0

\* a slide has just stood up by itself: Running, frame counter reset
C3_Witness ==
    /\ prev_state = "Sliding"
    /\ state_machine.state = "Running"
    /\ event.type = "Update"
    /\ Ctx.frame = 0

\* C4: vertical velocity under Update. Every Update leaves velocity.y at
\* least as large as before, adds exactly 1 while it was below 20, and
\* never leaves it above 20.
C4_VerticalVelocity ==
    [][(event'.type = "Update" /\ ~panicked')
         => /\ state_machine'.context.velocity.y >= Ctx.velocity.y
            /\ (Ctx.velocity.y < 20
                  => state_machine'.context.velocity.y = Ctx.velocity.y + 1)
            /\ state_machine'.context.velocity.y <= 20]_vars

\* an Update applied at terminal velocity (the cap is in force)
C4_Witness ==
    /\ event.type = "Update"
    /\ prev_state = "Running"
    /\ Ctx.velocity.y = 20
    /\ Ctx.position.y < FLOOR

\* C5: floor clamp. After any Update applied in a non-terminal state,
\* whatever position and velocity it started from (also when the i16
\* addition wraps), position.y <= 479.
C5_FloorClamp ==
    [][(event'.type = "Update" /\ state_machine.state # "KnockedOut" /\ ~panicked')
         => state_machine'.context.position.y <= 479]_vars

\* an Update of a jump that started below the floor line or wrapped
\* around the i16 range, and was clamped
C5_Witness ==
    /\ event.type = "Update"
    /\ ~panicked
    /\ prev_state = "Jumping"
    /\ state_machine.state = "Running"
    /\ Ctx.velocity.y = JUMP_SPEED + GRAVITY
    /\ Ctx.position.y = FLOOR

\* C6 as stated: in every reachable state, Land(y) with any y included,
\* position.y <= 479.
C6_PositionNeverBelowFloor == ~panicked => Ctx.position.y <= 479

\* C7: idempotent landing. Land(y) applied in Running gives a state that a
\* second Land(y) leaves unchanged, and its position.y is y - PLAYER_HEIGHT
\* (as i16), whatever the position before.
C7_IdempotentLanding ==
    [][(state_machine.state = "Running" /\ event'.type = "Land" /\ ~panicked')
         => /\ transition(state_machine', event') = state_machine'
            /\ state_machine'.context.position.y = I16(event'.position - 121)
            /\ state_machine'.state = "Running"
            /\ state_machine'.context.frame = Ctx.frame
            /\ state_machine'.context.velocity = Ctx.velocity
            /\ state_machine'.context.position.x = Ctx.position.x]_vars

\* Land(y) has just been applied in Running, in the middle of the run
\* animation and while moving upwards
C7_Witness ==
    /\ prev_state = "Running"
    /\ event.type = "Land"
    /\ ~panicked
    /\ Ctx.position.y = event.position - 121
    /\ Ctx.frame > 0
    /\ Ctx.velocity.y < 0

\* C8: frame label after running. After Run and n Updates from the new
\* machine, the variant is Running, frame = n mod 24 and the frame name is
\* "Run (k).png" with k = (n mod 24) / 3 + 1; for n = 6 it is "Run (3).png".
C8_FrameLabel ==
    run_updates >= 0
        => /\ state_machine.state = "Running"
           /\ Ctx.frame = run_updates % 24
           /\ frame_name(state_machine)
                = "Run (" \o ToString(((run_updates % 24) \div 3) + 1) \o ").png"
           /\ (run_updates = 6 => frame_name(state_machine) = "Run (3).png")

\* Scenario A: Run and six Updates
C8_Witness ==
    /\ run_updates = 6
    /\ frame_name(state_machine) = "Run (3).png"

\* C9: knock-out by a barrier. When the check finds the character's box
\* overlapping the barrier's box in Running, Sliding or Jumping, the result
\* is Falling with frame 0, velocity {0, 1} and the position unchanged; in
\* Idle, Falling or KnockedOut the check leaves the machine unchanged.
C9_BarrierKnockOut ==
    [][(event'.type = "CheckIntersection"
          /\ intersects(bounding_box(state_machine, event'.cell), event'.box))
         => IF state_machine.state \in {"Running", "Sliding", "Jumping"}
            THEN state_machine'
                   = Machine("Falling", [frame |-> 0,
                                         position |-> Ctx.position,
                                         velocity |-> [x |-> 0, y |-> 1]])
            ELSE state_machine' = state_machine]_vars

\* a jumping character has just been knocked out by an overlapping barrier
C9_Witness ==
    /\ event.type = "CheckIntersection"
    /\ prev_state = "Jumping"
    /\ state_machine.state = "Falling"
    /\ intersects(bounding_box(state_machine, event.cell), event.box)

\* an Update applied in Jumping brings position.y to the floor constant
JumpReachesFloor ==
    /\ state_machine.state = "Jumping"
    /\ event'.type = "Update"
    /\ ~panicked'
    /\ Min(I16(Ctx.position.y + GravityApplied(Ctx)), 479) = 479

\* C10 as stated: an Update that brings a jump to the floor gives Running
\* with frame 0 and position.y = FLOOR - PLAYER_HEIGHT.
C10_LandingAtFloorMinusHeight ==
    [][JumpReachesFloor
         => /\ state_machine'.state = "Running"
            /\ state_machine'.context.frame = 0
            /\ state_machine'.context.position.y = FLOOR - PLAYER_HEIGHT]_vars

\* C10 amended: an Update that brings a jump to the floor gives Running
\* with frame 0 and position.y = HEIGHT - PLAYER_HEIGHT, which is the floor
\* constant itself (479).
C10_LandingFromJump ==
    [][JumpReachesFloor
         => /\ state_machine'.state = "Running"
            /\ state_machine'.context.frame = 0
            /\ state_machine'.context.position.y = 600 - 121
            /\ state_machine'.context.position.y = 479]_vars

\* a jump from the floor has come down again at terminal velocity
C10_Witness ==
    /\ prev_state = "Jumping"
    /\ event.type = "Update"
    /\ state_machine.state = "Running"
    /\ Ctx.velocity.y = TERMINAL_VELOCITY
    /\ Ctx.position.y = FLOOR
    /\ Ctx.frame = 0

\* ------------------------------------------------------------------------
\* Properties of the world
\* ------------------------------------------------------------------------
\* a step of SpecWorld that is a world tick
IsTick == game = "Loaded" /\ steps' = steps + 1

OnScreen(obstacle_list) == SelectSeq(obstacle_list, LAMBDA obstacle : right(obstacle) > 0)

\* the distances a tick can move an obstacle by
TickDistances == (-2 * RUNNING_SPEED)..0

TemplateLen == Len(stone_and_platform(Stone, 0))

\* C11: a world tick removes exactly the obstacles whose right() is <= 0 at
\* its start: the obstacles with right() > 0 are all still in the list at
\* its end, in the same order and at the head of the list, each moved by the
\* same distance, and the only other obstacles of the list are those of a
\* template the tick has appended
C11_Retirement ==
    [][IsTick =>
        LET kept == OnScreen(obstacles)
        IN  /\ Len(obstacles') \in {Len(kept), Len(kept) + TemplateLen}
            /\ \E d \in TickDistances :
                    \A i \in 1..Len(kept) : obstacles'[i] = move_horizontally(kept[i], d)]_vars

\* a tick has just retired an obstacle and kept others
C11_Witness ==
    /\ event.type = "Tick"
    /\ event.retired > 0
    /\ Len(obstacles) > 0

TileX(i) == background[i].bounding_box.x

TileRight(i) == ImageRight(background[i])

TileWidth(i) == background[i].bounding_box.w

\* one tile starts where the other ends
Adjacent == TileX(1) = TileRight(2) \/ TileX(2) = TileRight(1)

\* the two tiles together lie over the whole of [0, W]
Covered ==
    /\ Min(TileX(1), TileX(2)) <= 0
    /\ Max(TileRight(1), TileRight(2)) >= TileWidth(1)

\* C12: once the game is loaded with a background of width W > 0, the two
\* tiles have that width, are exactly adjacent and together cover [0, W]
\* after start-up and after every world tick; and a tile that a tick has
\* taken to the right of where it was (the tile had crossed the left edge)
\* starts exactly at its sibling's right()
C12_BackgroundLoop ==
    /\ [](game = "Loaded" =>
            /\ TileWidth(1) = TileWidth(2)
            /\ Adjacent
            /\ Covered)
    /\ [][IsTick =>
            \A i \in 1..2 :
                TileX(i)' > TileX(i) => TileX(i)' = TileRight(3 - i)']_vars

\* both tiles have been taken behind their sibling: the first is again the left one
C12_Witness ==
    /\ game = "Loaded"
    /\ TileX(1) < 0
    /\ TileX(2) = TileRight(1)
    /\ steps * RUNNING_SPEED > 2 * TileWidth(1)

Checks == {k \in 1..Len(calls) : calls[k].op = "check_intersection"}

CharacterUpdates == {k \in 1..Len(calls) : calls[k].op = "update"}

\* the check follows the move of the same obstacle and sees the obstacle there
AfterItsMove(k) ==
    /\ k > 1
    /\ calls[k - 1].op = "move_horizontally"
    /\ calls[k - 1].obstacle = calls[k].obstacle
    /\ calls[k - 1].right = calls[k].right

\* C16 as stated: every check of a tick is evaluated after its obstacle's
\* move, and every check comes before the character's Update of the tick
C16_ChecksBeforeUpdate ==
    event.type = "Tick" =>
        /\ CharacterUpdates # {}
        /\ \A k \in Checks :
                /\ AfterItsMove(k)
                /\ \A j \in CharacterUpdates : k < j

\* C16, amended: every check of a tick is evaluated against the obstacle's
\* position after that obstacle's move of the same pass, and the character's
\* Update is the first call of the tick, before every move and check; so a
\* tick that knocks the character out leaves it at frame 0 of the fall with
\* the vertical velocity of stop()
C16_CollisionOrdering ==
    event.type = "Tick" =>
        /\ CharacterUpdates = {1}
        /\ \A k \in Checks : AfterItsMove(k)
        /\ (prev_state # "Falling" /\ state_machine.state = "Falling") =>
                Ctx.frame = 0 /\ Ctx.velocity.y = GRAVITY

\* a tick has moved the obstacles and knocked the character out
C16_Witness ==
    /\ event.type = "Tick"
    /\ prev_state = "Running"
    /\ state_machine.state = "Falling"
    /\ Checks # {}
    /\ right(obstacles[1]) < right(stone_and_platform(Stone, 0)[1])

\* the velocity of a tick: minus the run speed the character has when its
\* Update of the tick has been applied
TickVelocity == -walk_speed(transition(PressKeys(state_machine, event'.keys), Update))

\* C17: a tick that starts with timeline < 1000 appends exactly one template,
\* anchored at timeline + 20, after the obstacles it keeps, and timeline
\* becomes the largest right() of the new obstacles; any other tick adds no
\* obstacle and changes timeline by exactly the velocity of the tick
C17_SpawnerRule ==
    [][IsTick =>
        LET kept == Len(OnScreen(obstacles))
            template == stone_and_platform(Stone, timeline + OBSTACLE_BUFFER)
        IN  IF timeline < TIMELINE_MINIMUM
            THEN /\ Len(obstacles') = kept + Len(template)
                 /\ SubSeq(obstacles', kept + 1, Len(obstacles')) = template
                 /\ \A i \in 1..Len(template) : right(template[i]) <= timeline'
                 /\ \E i \in 1..Len(template) : right(template[i]) = timeline'
            ELSE /\ Len(obstacles') = kept
                 /\ timeline' = timeline + TickVelocity]_vars

\* the timeline has been filled by spawning and the last tick has let it decay
C17_Witness ==
    /\ event.type = "Tick"
    /\ event.timeline >= TIMELINE_MINIMUM
    /\ timeline = event.timeline - RUNNING_SPEED
    /\ Len(obstacles) = 2 * TemplateLen

\* C18 as stated: at the end of every world tick with a non-empty obstacle
\* list, timeline is the largest right() over the obstacles of the list
C18_TimelineWatermark ==
    (event.type = "Tick" /\ Len(obstacles) > 0) => timeline = rightmost(obstacles)

\* ------------------------------------------------------------------------
\* Properties of the game loop
\* ------------------------------------------------------------------------
\* a step that is a frame callback
IsFrame == event'.type = "Frame"

\* C13: a frame callback with timestamp perf >= last_frame adds
\* perf - last_frame to the accumulator and makes one update() call for each
\* FRAME_SIZE it subtracts, subtracting only while the accumulator is
\* strictly greater than FRAME_SIZE; when it returns,
\* 0 <= accumulated_delta <= FRAME_SIZE and last_frame = perf
C13_AccumulatorDrain ==
    [][IsFrame =>
        LET perf == event'.perf
            total == accumulated_delta + (perf - last_frame)
            n == updates' - updates
        IN  perf >= last_frame =>
                /\ n >= 0
                /\ n = NumUpdates(frame_calls')
                /\ accumulated_delta' = total - n * FRAME_SIZE
                /\ n > 0 => accumulated_delta' > 0
                /\ 0 <= accumulated_delta'
                /\ accumulated_delta' <= FRAME_SIZE
                /\ last_frame' = perf]_vars

\* a callback has run two ticks and has kept a remainder
C13_Witness ==
    /\ event.type = "Frame"
    /\ NumUpdates(frame_calls) = 2
    /\ accumulated_delta \in 1..(FRAME_SIZE - 1)

\* the number of ticks due when the time t has passed since the start
UpdatesAt(t) == IF t <= 0 THEN 0 ELSE (t - 1) \div FRAME_SIZE

\* C14: the number of update() calls made so far depends only on the
\* timestamp of the last callback and on the time the loop started at, not
\* on how many callbacks there were or how they were spaced
C14_ConstantLogicalRate ==
    game_loop = "Running" => updates = UpdatesAt(last_frame - StartTime)

\* the time of two ticks and a bit has passed in several callbacks, the last
\* of which has run one tick; one callback spanning that time runs two
C14_Witness ==
    /\ game_loop = "Running"
    /\ last_frame = StartTime + 2 * FRAME_SIZE + 20
    /\ updates = 2
    /\ NumUpdates(frame_calls) = 1

\* the calls of a whole callback: its ticks, one draw, one request
WholeCallback(log) ==
    /\ Len(log) >= 2
    /\ \A k \in 1..(Len(log) - 2) : log[k] = "update"
    /\ log[Len(log) - 1] = "draw"
    /\ log[Len(log)] = "request_animation_frame"

\* C15: every frame callback makes its update() calls, then one draw(),
\* then one request for the next frame, in this order; at most one callback
\* is requested and not yet run at any time
C15_CallbackProtocol ==
    /\ pending \in {0, 1}
    /\ event.type = "Frame" => WholeCallback(frame_calls)
    /\ game_loop = "Running" => pending = 1

\* a callback has run several ticks, has drawn and has requested the next frame
C15_Witness ==
    /\ event.type = "Frame"
    /\ NumUpdates(frame_calls) >= 2
    /\ WholeCallback(frame_calls)
    /\ pending = 1

WorldState == <<game, state_machine, background, obstacles, timeline, broken_images>>

\* C19: initialize on a loaded game returns an error and leaves the game and
\* its world as they are; initialize on a loading game whose assets all load
\* returns a loaded game
C19_DoubleInitialization ==
    [][event'.type \in {"Initialize", "Start"} =>
        IF game = "Loaded"
        THEN event'.result = "Err" /\ WorldState' = WorldState
        ELSE (~event'.image_error /\ ~event'.fetch_failed) =>
                event'.result = "Ok" /\ game' = "Loaded"]_vars

\* initialize has failed on a game that was running, and the world is still there
C19_Witness ==
    /\ event.type = "Initialize"
    /\ event.from = "Loaded"
    /\ event.result = "Err"
    /\ game = "Loaded"
    /\ updates > 0
    /\ Len(obstacles) > 0

\* C20 as stated: when the error callback of an image fires during start-up,
\* start fails, and no update(), draw() or frame request ever happens
C20_AssetLoadFailureFatal ==
    /\ (event.type = "Start" /\ event.from = "Loading" /\ event.image_error) =>
            event.result = "Err" /\ game_loop = "Failed"
    /\ broken_images # {} => updates = 0 /\ frame_calls = <<>> /\ pending = 0

\* ------------------------------------------------------------------------
\* Properties of the character over time
\* ------------------------------------------------------------------------
\* the last step has delivered an Update to the machine
Updated == event'.type = "Update" /\ ~panicked'

\* C21: a fall is entered at frame 0; every Update of a fall adds one to the
\* frame counter and keeps Falling, until the Update that brings the counter
\* to the last frame (FALLING_FRAMES - 1), which gives KnockedOut: that is
\* the 29th Update of the fall, so Falling is never seen with the last
\* frame; any other event leaves a fall as it is; and every step leaves a
\* KnockedOut machine as it is
C21_FallEnds ==
    /\ []((state_machine.state = "Falling" /\ prev_state # "Falling") => Ctx.frame = 0)
    /\ [](state_machine.state = "Falling" => Ctx.frame \in 0..(FALLING_FRAMES - 2))
    /\ [][state_machine.state = "Falling" =>
            IF Updated
            THEN /\ Ctx'.frame = Ctx.frame + 1
                 /\ state_machine'.state =
                        IF Ctx'.frame = FALLING_FRAMES - 1 THEN "KnockedOut" ELSE "Falling"
            ELSE state_machine' = state_machine]_vars
    /\ [][state_machine.state = "KnockedOut" => state_machine' = state_machine]_vars

\* an Update has been delivered to a machine that was KnockedOut after a
\* whole fall
C21_Witness ==
    /\ state_machine.state = "KnockedOut"
    /\ prev_state = "KnockedOut"
    /\ event.type = "Update"
    /\ Ctx.frame = FALLING_FRAMES - 1

\* C22: Slide in Running gives Sliding at frame 0; every Update of a slide
\* adds one to the frame counter and keeps Sliding, until the Update on
\* which the counter would reach the last slide frame (SLIDING_FRAMES - 1),
\* which gives Running at frame 0; Sliding is never seen with that frame
C22_SlideStandsUp ==
    /\ []((state_machine.state = "Sliding" /\ prev_state = "Running") =>
            event.type = "Slide" /\ Ctx.frame = 0)
    /\ [](state_machine.state = "Sliding" => Ctx.frame \in 0..(SLIDING_FRAMES - 2))
    /\ [][(state_machine.state = "Sliding" /\ Updated) =>
            IF Ctx.frame + 1 = SLIDING_FRAMES - 1
            THEN state_machine'.state = "Running" /\ Ctx'.frame = 0
            ELSE state_machine'.state = "Sliding" /\ Ctx'.frame = Ctx.frame + 1]_vars

\* a slide has lasted to its end and the Update has stood the character up
C22_Witness ==
    /\ prev_state = "Sliding"
    /\ event.type = "Update"
    /\ state_machine.state = "Running"
    /\ Ctx.frame = 0
    /\ Ctx.velocity.x = RUNNING_SPEED

\* what is left of a jump: the speed still to gain and the height still to lose
JumpRank(context) ==
    (1 - JUMP_SPEED) * (TERMINAL_VELOCITY - context.velocity.y)
        + (FLOOR - context.position.y)

\* position.y after the Update of a jump, before the landing is decided
JumpUpdatedY == Min(Ctx.position.y + GravityApplied(Ctx), FLOOR)

\* C23: Jump in Running gives Jumping at frame 0 with vertical velocity
\* JUMP_SPEED; an Update of a jump keeps Jumping exactly when position.y is
\* above the floor after it, and gives Running when position.y has come to
\* the floor; every Update that keeps the jump going lowers the rank of the
\* jump, a natural number, so the jump ends after at most as many Updates as
\* its rank was when it began
C23_JumpReturns ==
    /\ []((state_machine.state = "Jumping" /\ prev_state = "Running") =>
            event.type = "Jump" /\ Ctx.frame = 0 /\ Ctx.velocity.y = JUMP_SPEED)
    /\ [](state_machine.state = "Jumping" =>
            /\ Ctx.velocity.y \in JUMP_SPEED..TERMINAL_VELOCITY
            /\ JumpRank(Ctx) >= 0)
    /\ [][(state_machine.state = "Jumping" /\ Updated) =>
            IF JumpUpdatedY < FLOOR
            THEN /\ state_machine'.state = "Jumping"
                 /\ Ctx'.position.y = JumpUpdatedY
                 /\ JumpRank(Ctx') < JumpRank(Ctx)
            ELSE state_machine'.state = "Running"]_vars

\* a jump that began above the floor has come back to running
C23_Witness ==
    /\ prev_state = "Jumping"
    /\ event.type = "Update"
    /\ state_machine.state = "Running"
    /\ Ctx.position.y = HEIGHT - PLAYER_HEIGHT
    /\ Ctx.velocity.x = RUNNING_SPEED

\* C26: velocity.x is 0 or RUNNING_SPEED in every reachable state, and is 0
\* exactly in Idle, Falling and KnockedOut; velocity.x grows only on the
\* step from Idle to Running; Idle is never entered again
C26_RunSpeed ==
    /\ [](Ctx.velocity.x \in {0, RUNNING_SPEED})
    /\ [](Ctx.velocity.x = 0 <=>
            state_machine.state \in {"Idle", "Falling", "KnockedOut"})
    /\ [][Ctx'.velocity.x > Ctx.velocity.x =>
            state_machine.state = "Idle" /\ state_machine'.state = "Running"]_vars
    /\ [][state_machine.state # "Idle" => state_machine'.state # "Idle"]_vars

\* Run has been delivered to a machine that was already running
C26_Witness ==
    /\ event.type = "Run"
    /\ prev_state = "Running"
    /\ state_machine.state = "Running"
    /\ Ctx.velocity.x = RUNNING_SPEED

\* ------------------------------------------------------------------------
\* Properties of the keys of a tick
\* ------------------------------------------------------------------------
\* the event of a key when the key is among the pressed ones
KeyEvent(machine, key, e) ==
    IF key \in event'.keys THEN transition(machine, e) ELSE machine

\* the character of the tick when Run, Slide, Jump and Update have been
\* applied in this order, before any obstacle has moved
AfterKeysAndUpdate ==
    transition(
        KeyEvent(KeyEvent(KeyEvent(state_machine, "ArrowRight", Run), "ArrowDown", Slide),
                 "Space", Jump),
        Update)

\* what the collision checks of a tick can make of the character: leave it,
\* knock it out, or land it on a platform
AfterChecks(machine) ==
    {machine, knock_out(machine)}
        \cup {m \in {state_machine'} :
                /\ m.state = "Running"
                /\ machine.state \in {"Running", "Jumping"}
                /\ m.context.velocity = machine.context.velocity}

DistanceMoved == -2 * walk_speed(AfterKeysAndUpdate)

\* the obstacles of the tick have moved by the speed that Run has given
MovedAfterKeys ==
    \A i \in 1..Len(OnScreen(obstacles)) :
        right(obstacles'[i]) = right(OnScreen(obstacles)[i]) + DistanceMoved

\* C27 as stated: the keys are applied as Run, Slide, Jump, then one Update,
\* before any obstacle moves; with down and jump pressed while Running the
\* character ends the tick Sliding, and with right and jump (and not down)
\* pressed while Idle it ends the tick Jumping at the running speed
C27_KeysThenUpdate ==
    [][IsTick =>
        /\ calls'[1].op = "update"
        /\ MovedAfterKeys
        /\ state_machine' \in AfterChecks(AfterKeysAndUpdate)
        /\ (state_machine.state = "Running" /\ {"ArrowDown", "Space"} \subseteq event'.keys)
                => state_machine'.state = "Sliding"
        /\ (state_machine.state = "Idle" /\ event'.keys = {"ArrowRight", "Space"})
                => /\ state_machine'.state = "Jumping"
                   /\ Ctx'.velocity.x = RUNNING_SPEED]_vars

\* C27, amended: the keys are applied as Run, Slide, Jump, then one Update,
\* before any obstacle moves; with down and jump pressed while Running the
\* character is Sliding when the obstacles move, and ends the tick Sliding
\* unless a collision check of the tick knocks it out (Falling, frame 0);
\* with right and jump (and not down) pressed while Idle it ends the tick
\* Jumping at the running speed
C27_InputOrder ==
    [][IsTick =>
        /\ calls'[1].op = "update"
        /\ MovedAfterKeys
        /\ state_machine' \in AfterChecks(AfterKeysAndUpdate)
        /\ (state_machine.state = "Running" /\ {"ArrowDown", "Space"} \subseteq event'.keys)
                => /\ AfterKeysAndUpdate.state = "Sliding"
                   /\ \/ state_machine' = AfterKeysAndUpdate
                      \/ /\ state_machine' = knock_out(AfterKeysAndUpdate)
                         /\ state_machine'.state = "Falling"
        /\ (state_machine.state = "Idle" /\ event'.keys = {"ArrowRight", "Space"})
                => /\ state_machine'.state = "Jumping"
                   /\ Ctx'.velocity.x = RUNNING_SPEED]_vars

\* down and jump were pressed on a running character, which has slid
C27_Witness ==
    /\ event.type = "Tick"
    /\ {"ArrowDown", "Space"} \subseteq event.keys
    /\ prev_state = "Running"
    /\ state_machine.state = "Sliding"
    /\ Ctx.frame = 1

\* ------------------------------------------------------------------------
\* Properties of the platform
\* ------------------------------------------------------------------------
\* the boxes of the platform that the character's box overlaps
Overlapped(platform, machine) ==
    {i \in 1..Len(platform.bounding_boxes) :
        intersects(bounding_box(machine, current_sprite(machine)),
                   platform.bounding_boxes[i])}

FirstOf(indices) == CHOOSE i \in indices : \A j \in indices : i <= j

\* C24: the check of a platform leaves the character as it is when none of
\* the platform's boxes overlaps the character's box; otherwise it looks at
\* the first overlapping box in list order, and lands the character on that
\* box's top when velocity.y > 0 and the character's position.y is above the
\* platform's, and knocks the character out when not
C24_PlatformCollision ==
    [][event'.type = "PlatformCheckIntersection" =>
        LET platform == event'.platform
            over == Overlapped(platform, state_machine)
        IN  IF over = {} THEN state_machine' = state_machine
            ELSE IF Ctx.velocity.y > 0 /\ Ctx.position.y < platform.position.y
                 THEN state_machine' =
                        transition(state_machine,
                                   Land(platform.bounding_boxes[FirstOf(over)].y))
                 ELSE state_machine' = transition(state_machine, KnockOut)]_vars

\* a jump has come down on the second box of a platform and stands on it
C24_Witness ==
    /\ event.type = "PlatformCheckIntersection"
    /\ prev_state = "Jumping"
    /\ state_machine.state = "Running"
    /\ Ctx.position.y = LOW_PLATFORM - PLAYER_HEIGHT
    /\ FirstOf(Overlapped(event.platform, state_machine) \cup {4}) = 2

\* ------------------------------------------------------------------------
\* Properties of the two passes of a tick
\* ------------------------------------------------------------------------
\* the calls of pass number pass over the obstacles kept, each obstacle moved
\* and then checked, with the right edge the obstacle has by then
PassCalls(kept, distance, pass) ==
    [k \in 1..(2 * Len(kept)) |->
        LET i == (k + 1) \div 2
        IN  Call(IF k % 2 = 1 THEN "move_horizontally" ELSE "check_intersection",
                 i, right(kept[i]) + pass * distance)]

\* obstacle after is obstacle before with its position and every one of
\* its boxes further by distance, and nothing else changed
Translated(before, after, distance) ==
    /\ after.kind = before.kind
    /\ IF before.kind = "Barrier"
       THEN after.image.bounding_box =
                [before.image.bounding_box EXCEPT !.x = @ + distance]
       ELSE /\ after.position = [before.position EXCEPT !.x = @ + distance]
            /\ Len(after.bounding_boxes) = Len(before.bounding_boxes)
            /\ \A b \in 1..Len(before.bounding_boxes) :
                    after.bounding_boxes[b] =
                        [before.bounding_boxes[b] EXCEPT !.x = @ + distance]

\* the boxes of a platform are where Platform::new has put them
\* relative to the platform's position
OffsetsKept(platform) ==
    /\ Len(platform.bounding_boxes) = Len(FLOATING_PLATFORM_BOUNDING_BOXES)
    /\ \A b \in 1..Len(platform.bounding_boxes) :
            /\ platform.bounding_boxes[b].x - platform.position.x =
                    FLOATING_PLATFORM_BOUNDING_BOXES[b].x
            /\ platform.bounding_boxes[b].y - platform.position.y =
                    FLOATING_PLATFORM_BOUNDING_BOXES[b].y

\* C25: in a world tick, after the character's update, every obstacle that
\* survives retirement is moved and checked in a first pass and again, in
\* the same list order, in a second pass, and nothing else is called on an
\* obstacle; at the end of the tick its position and each of its boxes are
\* further by exactly twice the velocity of the tick, and a platform's boxes
\* always keep their offsets to its position; a background tile is moved by
\* once the velocity (or taken behind its sibling), and so is the timeline
\* of a tick that does not spawn
C25_DoubleApplication ==
    /\ [](\A i \in 1..Len(obstacles) :
            obstacles[i].kind = "Platform" => OffsetsKept(obstacles[i]))
    /\ [][IsTick =>
            LET kept == OnScreen(obstacles)
                distance == TickVelocity
            IN  /\ calls' = <<Call("update", 0, 0)>> \o PassCalls(kept, distance, 1)
                                \o PassCalls(kept, distance, 2)
                /\ \A i \in 1..Len(kept) :
                        Translated(kept[i], obstacles'[i], 2 * distance)
                /\ \A i \in 1..2 :
                        \/ TileX(i)' = TileX(i) + distance
                        \/ /\ TileRight(i) + distance < 0
                           /\ TileX(i)' = TileRight(3 - i)'
                /\ timeline >= TIMELINE_MINIMUM => timeline' = timeline + distance]_vars

\* a tick of the running character has passed twice over two stones and two
\* platforms, and the second pass has found the first stone further to the left
C25_Witness ==
    /\ event.type = "Tick"
    /\ Len(calls) = 1 + 4 * Len(obstacles)
    /\ Len(obstacles) = 2 * TemplateLen
    /\ calls[2 + 2 * Len(obstacles)].op = "move_horizontally"
    /\ calls[2 + 2 * Len(obstacles)].obstacle = 1
    /\ calls[2 + 2 * Len(obstacles)].right = calls[2].right - RUNNING_SPEED
    /\ obstacles[2].kind = "Platform"
    /\ event.timeline >= TIMELINE_MINIMUM
    /\ timeline = event.timeline - RUNNING_SPEED

\* ------------------------------------------------------------------------
\* Properties of the world after a knock-out
\* ------------------------------------------------------------------------
KnockedDown == {"Falling", "KnockedOut"}

SpawnAdvance == OBSTACLE_BUFFER + rightmost(stone_and_platform(Stone, 0))

\* C29: in a tick that does not spawn and in which the character has a
\* positive run speed, the timeline decreases by the run speed, so that from
\* a timeline t >= 1000 a character that keeps running meets a spawning
\* tick after (t - 1000) \div 3 + 1 ticks at most, whatever t it starts
\* from again; and a tick that spawns takes the timeline to the right by
\* the extent of a template, which is positive, so that spawning on
\* consecutive ticks ends with the timeline at 1000 at least
C29_EndlessCourse ==
    /\ [][(IsTick /\ timeline >= TIMELINE_MINIMUM /\ TickVelocity < 0) =>
            /\ timeline' = timeline - RUNNING_SPEED
            /\ timeline' >= TIMELINE_MINIMUM - RUNNING_SPEED
            /\ Len(obstacles') <= Len(obstacles)]_vars
    /\ [][(IsTick /\ timeline < TIMELINE_MINIMUM) =>
            /\ SpawnAdvance > 0
            /\ timeline' = timeline + SpawnAdvance
            /\ Len(obstacles') = Len(OnScreen(obstacles)) + TemplateLen]_vars

\* the character has kept running since the first group was spawned, the
\* timeline has come down from there to below the threshold, and the
\* tick has spawned a group again
C29_Witness ==
    /\ event.type = "Tick"
    /\ steps > 1
    /\ event.timeline < TIMELINE_MINIMUM
    /\ event.timeline >= TIMELINE_MINIMUM - RUNNING_SPEED
    /\ timeline = event.timeline + SpawnAdvance
    /\ walk_speed(state_machine) > 0

====
